---- MODULE Spec2Model ----
(***************************************************************************)
(* Model of src/Primary code/Watchdog.Cpp: the WatchdogNode application    *)
(* (periodic monitoring rounds, reputation, the shared convergence state), *)
(* the GreyholeNode application, and the part of the ns-3 event scheduler  *)
(* the two applications use (Schedule, Cancel, Stop, Now).                 *)
(*                                                                         *)
(* Simulated time is counted in whole seconds: every delay in the source   *)
(* is a whole number of seconds.  m_reputation is a double that only ever  *)
(* moves by +-1.0 from 0, so it is an integer here.  Probabilities are in  *)
(* hundredths (0.33 is 33, 0.5 is 50).                                     *)
(***************************************************************************)
EXTENDS Integers, Sequences, FiniteSets, TLC

\* ---- bounds of the model ------------------------------------------------
NumWatchdogs == 2      \* watchdog applications (main installs 24)
RandMax == 3           \* largest value rand() returns (RAND_MAX of <cstdlib>)
EarlyStop == 4         \* a stop time that falls while rounds are pending
MaxPackets == 3        \* packets delivered to the greyhole socket
RandStates == 8        \* states of the generator behind rand()

\* ---- constants of the program -------------------------------------------
NumOther == 3          \* greyhole, source and sink nodes: 27 created, 24 watched
m_maxMonitorCount == 10
m_threshold == 1       \* 1.0
StartTime == 1         \* SetStartTime(Seconds(1.0))
SimStop == 30          \* SetStopTime(Seconds(30.0)), Simulator::Stop(Seconds(30.0))
RoundDelay == 1        \* Simulator::Schedule(Seconds(1.0), ...)
PositiveBelow == 33    \* randomValue < 0.33
NegativeBelow == 66    \* randomValue < 0.66
DefaultGamma == 50     \* m_gamma(0.5)
DefaultDrop == 50      \* m_dropProbability(0.5)
ShippedDrop == 5       \* Setup(nodes.Get(25), 0.05)

Watchdogs == 0 .. (NumWatchdogs - 1)
NullNode == -1                       \* Ptr<Node>(0)
NoEvent == 0                         \* a default-constructed EventId
StopTimes == {EarlyStop, SimStop}
\* sizes of nodesStatus: one entry per created node (main), and the scenario
\* in which every created node runs a watchdog
TrackedSizes == {NumWatchdogs, NumWatchdogs + NumOther}
Gammas == {25, DefaultGamma, 75}
DropProbabilities == {0, ShippedDrop, DefaultDrop, 100}

VARIABLES
    \* scheduler
    now,                \* Simulator::Now(), seconds
    running,            \* FALSE once Simulator::Stop has been dispatched
    queue,              \* pending events in dispatch order (time, then uid)
    nextUid,            \* uid the next scheduled event gets
    \* globals of the program
    allNodesConverged,
    nodesStatus,
    convergenceTime,
    \* WatchdogNode members, one per application
    m_node,
    m_gamma,
    m_reputation,
    m_event,
    m_monitorCount,
    m_receivedPackets,
    m_sentPackets,
    m_packetLossRate,
    \* position of each watchdog application and what it logged
    app,                \* "created", "started", "stopped"
    terminated,         \* the round handler took the termination branch
    status,             \* the state logged by the last ProcessEvent
    posEvents,          \* POSITIVE_STATUS events processed so far
    negEvents,          \* NEGATIVE_STATUS events processed so far
    noEvents,           \* NO_STATUS events processed so far
    \* GreyholeNode members and what it did
    g_dropProbability,
    g_socket,           \* TRUE while m_socket is a bound socket
    g_app,
    g_randomValue,      \* the last rand() drawn by ReceivePacket
    g_forwarded,        \* packets sent back
    g_dropped,          \* packets dropped
    \* the generator behind rand(), and the repetition of a run
    rngState,           \* hidden state of the generator
    run,                \* 1 in the first execution of main, 2 in the second
    firstOutcome,       \* what the first execution ended with
    scenario            \* stop times and generator state the executions start from

schedVars == <<now, running, queue, nextUid>>
globalVars == <<allNodesConverged, nodesStatus, convergenceTime>>
bindVars == <<m_node, m_gamma>>
wdVars == <<m_reputation, m_event, m_monitorCount, m_receivedPackets,
            m_sentPackets, m_packetLossRate>>
posVars == <<app, terminated, status, posEvents, negEvents, noEvents>>
greyVars == <<g_dropProbability, g_socket, g_app, g_randomValue,
              g_forwarded, g_dropped>>
runVars == <<rngState, run, firstOutcome, scenario>>
vars == <<schedVars, globalVars, bindVars, wdVars, posVars, greyVars, runVars>>

\* ---- doubles that can be NaN --------------------------------------------
Num(v) == [nan |-> FALSE, val |-> v]
NaN == [nan |-> TRUE, val |-> 0]

\* 1.0 - ((double)received / sent), in hundredths.  There is no test of
\* sent: 0.0/0 is NaN on the IEEE-754 builds, and so is 1.0 - NaN.
LossRate(received, sent) ==
    IF sent = 0
    THEN NaN
    ELSE Num(100 - ((100 * received) \div sent))

\* ---- scheduler ------------------------------------------------------------
\* Events at the same time are dispatched in the order they were scheduled.
InsertEvent(q, ev) ==
    LET k == Cardinality({i \in 1 .. Len(q) : q[i].ts <= ev.ts})
    IN SubSeq(q, 1, k) \o <<ev>> \o SubSeq(q, k + 1, Len(q))

Event(ts, uid, kind, w) == [ts |-> ts, uid |-> uid, kind |-> kind, w |-> w]

\* Simulator::Cancel(id): the event with that uid is never dispatched.
Cancel(q, uid) == SelectSeq(q, LAMBDA e : e.uid # uid)

Pending(w) == \E i \in 1 .. Len(queue) :
                 queue[i].kind = "MonitorNode" /\ queue[i].w = w

\* Application::DoInitialize of each watchdog, in installation order:
\* StartApplication at the start time, StopApplication at the stop time.
RECURSIVE InitializeApps(_, _, _)
InitializeApps(w, q, stopTime) ==
    IF w = NumWatchdogs
    THEN q
    ELSE InitializeApps(w + 1,
             InsertEvent(
                 InsertEvent(q, Event(StartTime, 2 + 2 * w, "StartApplication", w)),
                 Event(stopTime[w], 3 + 2 * w, "StopApplication", w)),
             stopTime)

\* Simulator::Stop(Seconds(30.0)) is scheduled before Simulator::Run, so it
\* precedes every event scheduled while the simulation runs.
InitialQueue(stopTime) ==
    InitializeApps(0, <<Event(SimStop, 1, "SimulatorStop", NullNode)>>, stopTime)

\* ---- pure parts of the round ---------------------------------------------
\* (double)rand() / RAND_MAX compared with 0.33 and 0.66
EvidenceOf(r) ==
    IF 100 * r < PositiveBelow * RandMax THEN "POSITIVE_STATUS"
    ELSE IF 100 * r < NegativeBelow * RandMax THEN "NEGATIVE_STATUS"
    ELSE "NO_STATUS"

\* ApplyEvidence with the positive evidence applied twice
ApplyEvidenceTwice(rep, event) ==
    CASE event = "POSITIVE_STATUS" -> rep + 2
      [] event = "NEGATIVE_STATUS" -> rep - 1
      [] OTHER -> rep

\* ApplyEvidence with the break of the POSITIVE_STATUS case missing
ApplyEvidenceFallthrough(rep, event) ==
    CASE event = "POSITIVE_STATUS" -> (rep + 1) - 1
      [] event = "NEGATIVE_STATUS" -> rep - 1
      [] OTHER -> rep

\* the switch of ProcessEvent: the reputation
ApplyEvidence(rep, event) ==
    CASE event = "POSITIVE_STATUS" -> rep + 1
      [] event = "NEGATIVE_STATUS" -> rep - 1
      [] OTHER -> rep

\* MarkDecided storing whether this event is informative
MarkDecidedFromEvent(ns, node, event) ==
    [ns EXCEPT ![node] = (event \in {"POSITIVE_STATUS", "NEGATIVE_STATUS"})]

\* MarkDecided with the assignment outside the switch
MarkDecidedAlways(ns, node, event) ==
    [ns EXCEPT ![node] = TRUE]

\* MarkDecided indexing the node after its own
MarkDecidedNeighbour(ns, node, event) ==
    IF event \in {"POSITIVE_STATUS", "NEGATIVE_STATUS"}
    THEN [ns EXCEPT ![(node + 1) % Cardinality(DOMAIN ns)] = TRUE]
    ELSE ns

\* MarkDecided filling the vector
MarkDecidedAll(ns, node, event) ==
    IF event \in {"POSITIVE_STATUS", "NEGATIVE_STATUS"}
    THEN [i \in DOMAIN ns |-> TRUE]
    ELSE ns

\* the switch of ProcessEvent: nodesStatus[m_node->GetId()] = true
MarkDecided(ns, node, event) ==
    IF event \in {"POSITIVE_STATUS", "NEGATIVE_STATUS"}
    THEN [ns EXCEPT ![node] = TRUE]
    ELSE ns

\* Classify with <= for the negative bound
ClassifyInclusive(rep, threshold) ==
    IF rep >= threshold THEN "POSITIVE_STATUS"
    ELSE IF rep <= -threshold THEN "NEGATIVE_STATUS"
    ELSE "NO_STATUS"

\* the state ProcessEvent logs
Classify(rep, threshold) ==
    IF rep >= threshold THEN "POSITIVE_STATUS"
    ELSE IF rep < -threshold THEN "NEGATIVE_STATUS"
    ELSE "NO_STATUS"

\* the loop over nodesStatus
AllNodesHaveInfo(ns) == \A i \in DOMAIN ns : ns[i]

ConvergedAfter(allInfo, conv) ==
    IF allInfo /\ ~conv THEN TRUE ELSE conv

\* ConvergenceTimeAfter with the assignment outside the if
ConvergenceTimeEveryRound(allInfo, conv, t, old) == t

ConvergenceTimeAfter(allInfo, conv, t, old) ==
    IF allInfo /\ ~conv THEN t ELSE old

\* TerminationCheck without the test of allNodesConverged
TerminationCheckCountOnly(count, conv) ==
    count >= m_maxMonitorCount

\* TerminationCheck with > for >=
TerminationCheckOffByOne(count, conv) ==
    count > m_maxMonitorCount \/ conv

\* the test at the head of MonitorNode
TerminationCheck(count, conv) ==
    count >= m_maxMonitorCount \/ conv

\* ---- initial states --------------------------------------------------------
\* The members as the constructors leave them.
Constructed ==
    /\ m_node = [w \in Watchdogs |-> NullNode]
    /\ m_gamma = [w \in Watchdogs |-> DefaultGamma]
    /\ m_reputation = [w \in Watchdogs |-> 0]
    /\ m_event = [w \in Watchdogs |-> NoEvent]
    /\ m_monitorCount = [w \in Watchdogs |-> 0]
    /\ m_receivedPackets = [w \in Watchdogs |-> 0]
    /\ m_sentPackets = [w \in Watchdogs |-> 0]
    /\ m_packetLossRate = [w \in Watchdogs |-> Num(0)]
    /\ app = [w \in Watchdogs |-> "created"]
    /\ terminated = [w \in Watchdogs |-> FALSE]
    /\ status = [w \in Watchdogs |-> "none"]
    /\ posEvents = [w \in Watchdogs |-> 0]
    /\ negEvents = [w \in Watchdogs |-> 0]
    /\ noEvents = [w \in Watchdogs |-> 0]

GlobalsInit ==
    /\ allNodesConverged = FALSE
    /\ convergenceTime = 0

GreyholeConstructed ==
    /\ g_dropProbability = DefaultDrop
    /\ g_socket = FALSE
    /\ g_app = "created"
    /\ g_randomValue = 0
    /\ g_forwarded = 0
    /\ g_dropped = 0

\* rand() is not used through its generator, main is executed once
NoOutcome == [convergenceTime |-> 0, reputation |-> [w \in Watchdogs |-> 0]]
NoScenario == [stopTime |-> [w \in Watchdogs |-> SimStop], seed |-> 0]

RunIdle ==
    /\ rngState = 0
    /\ run = 1
    /\ firstOutcome = NoOutcome
    /\ scenario = NoScenario

\* The state when Simulator::Run starts dispatching: main has attached
\* watchdog w to node w with gamma 0.5 and sized nodesStatus.
MainStart ==
    /\ GlobalsInit
    /\ \E n \in TrackedSizes : nodesStatus = [i \in 0 .. (n - 1) |-> FALSE]
    /\ m_node = [w \in Watchdogs |-> w]
    /\ m_gamma = [w \in Watchdogs |-> DefaultGamma]
    /\ m_reputation = [w \in Watchdogs |-> 0]
    /\ m_event = [w \in Watchdogs |-> NoEvent]
    /\ m_monitorCount = [w \in Watchdogs |-> 0]
    /\ m_receivedPackets = [w \in Watchdogs |-> 0]
    /\ m_sentPackets = [w \in Watchdogs |-> 0]
    /\ m_packetLossRate = [w \in Watchdogs |-> Num(0)]
    /\ app = [w \in Watchdogs |-> "created"]
    /\ terminated = [w \in Watchdogs |-> FALSE]
    /\ status = [w \in Watchdogs |-> "none"]
    /\ posEvents = [w \in Watchdogs |-> 0]
    /\ negEvents = [w \in Watchdogs |-> 0]
    /\ noEvents = [w \in Watchdogs |-> 0]
    /\ now = 0
    /\ running = TRUE
    /\ \E stopTime \in [Watchdogs -> StopTimes] : queue = InitialQueue(stopTime)
    /\ nextUid = 2 + 2 * NumWatchdogs
    /\ GreyholeConstructed

Init == MainStart /\ RunIdle

\* ---- the handlers of WatchdogNode ------------------------------------------
\* the event at the head of the queue is dispatched
Dispatching(kind, w) ==
    /\ running
    /\ queue # <<>>
    /\ Head(queue).kind = kind
    /\ Head(queue).w = w

\* StartApplication scheduling the first round with no delay
StartApplicationNoDelay(w) ==
    /\ Dispatching("StartApplication", w)
    /\ now' = Head(queue).ts
    /\ queue' = InsertEvent(Tail(queue),
                    Event(Head(queue).ts, nextUid, "MonitorNode", w))
    /\ m_event' = [m_event EXCEPT ![w] = nextUid]
    /\ nextUid' = nextUid + 1
    /\ app' = [app EXCEPT ![w] = "started"]
    /\ UNCHANGED <<running, globalVars, bindVars, m_reputation, m_monitorCount,
                   m_receivedPackets, m_sentPackets, m_packetLossRate,
                   terminated, status, posEvents, negEvents, noEvents, greyVars, runVars>>

StartApplication(w) ==
    /\ Dispatching("StartApplication", w)
    /\ now' = Head(queue).ts
    /\ queue' = InsertEvent(Tail(queue),
                    Event(Head(queue).ts + RoundDelay, nextUid, "MonitorNode", w))
    /\ m_event' = [m_event EXCEPT ![w] = nextUid]
    /\ nextUid' = nextUid + 1
    /\ app' = [app EXCEPT ![w] = "started"]
    /\ UNCHANGED <<running, globalVars, bindVars, m_reputation, m_monitorCount,
                   m_receivedPackets, m_sentPackets, m_packetLossRate,
                   terminated, status, posEvents, negEvents, noEvents, greyVars, runVars>>

\* StopApplication without the Simulator::Cancel
StopApplicationNoCancel(w) ==
    /\ Dispatching("StopApplication", w)
    /\ now' = Head(queue).ts
    /\ queue' = Tail(queue)
    /\ app' = [app EXCEPT ![w] = "stopped"]
    /\ UNCHANGED <<running, nextUid, globalVars, bindVars, wdVars,
                   terminated, status, posEvents, negEvents, noEvents, greyVars, runVars>>

StopApplication(w) ==
    /\ Dispatching("StopApplication", w)
    /\ now' = Head(queue).ts
    /\ queue' = Cancel(Tail(queue), m_event[w])
    /\ app' = [app EXCEPT ![w] = "stopped"]
    /\ UNCHANGED <<running, nextUid, globalVars, bindVars, wdVars,
                   terminated, status, posEvents, negEvents, noEvents, greyVars, runVars>>

\* MonitorTerminate with the reschedule placed before the return
MonitorTerminateReschedules(w) ==
    /\ Dispatching("MonitorNode", w)
    /\ TerminationCheck(m_monitorCount[w], allNodesConverged)
    /\ now' = Head(queue).ts
    /\ queue' = InsertEvent(Tail(queue),
                    Event(Head(queue).ts + RoundDelay, nextUid, "MonitorNode", w))
    /\ m_event' = [m_event EXCEPT ![w] = nextUid]
    /\ nextUid' = nextUid + 1
    /\ m_packetLossRate' = [m_packetLossRate EXCEPT
                              ![w] = LossRate(m_receivedPackets[w], m_sentPackets[w])]
    /\ terminated' = [terminated EXCEPT ![w] = TRUE]
    /\ UNCHANGED <<running, globalVars, bindVars, m_reputation,
                   m_monitorCount, m_receivedPackets, m_sentPackets,
                   app, status, posEvents, negEvents, noEvents, greyVars, runVars>>

\* MonitorNode when the termination test holds: the loss rate, no reschedule
MonitorTerminate(w) ==
    /\ Dispatching("MonitorNode", w)
    /\ TerminationCheck(m_monitorCount[w], allNodesConverged)
    /\ now' = Head(queue).ts
    /\ queue' = Tail(queue)
    /\ m_packetLossRate' = [m_packetLossRate EXCEPT
                              ![w] = LossRate(m_receivedPackets[w], m_sentPackets[w])]
    /\ terminated' = [terminated EXCEPT ![w] = TRUE]
    /\ UNCHANGED <<running, nextUid, globalVars, bindVars, m_reputation, m_event,
                   m_monitorCount, m_receivedPackets, m_sentPackets,
                   app, status, posEvents, negEvents, noEvents, greyVars, runVars>>

\* MonitorNode otherwise, rand() having returned r: the evidence,
\* ProcessEvent, the count, the reschedule
MonitorRoundWith(w, r) ==
    /\ Dispatching("MonitorNode", w)
    /\ ~TerminationCheck(m_monitorCount[w], allNodesConverged)
    /\   LET event == EvidenceOf(r)
             t == Head(queue).ts
             rep == ApplyEvidence(m_reputation[w], event)
             ns == MarkDecided(nodesStatus, m_node[w], event)
             allInfo == AllNodesHaveInfo(ns)
         IN /\ now' = t
            /\ m_reputation' = [m_reputation EXCEPT ![w] = rep]
            /\ nodesStatus' = ns
            /\ status' = [status EXCEPT ![w] = Classify(rep, m_threshold)]
            /\ allNodesConverged' = ConvergedAfter(allInfo, allNodesConverged)
            /\ convergenceTime' = ConvergenceTimeAfter(allInfo, allNodesConverged,
                                                       t, convergenceTime)
            /\ posEvents' = [posEvents EXCEPT
                               ![w] = @ + (IF event = "POSITIVE_STATUS" THEN 1 ELSE 0)]
            /\ negEvents' = [negEvents EXCEPT
                               ![w] = @ + (IF event = "NEGATIVE_STATUS" THEN 1 ELSE 0)]
            /\ noEvents' = [noEvents EXCEPT
                               ![w] = @ + (IF event = "NO_STATUS" THEN 1 ELSE 0)]
            /\ m_monitorCount' = [m_monitorCount EXCEPT ![w] = @ + 1]
            /\ queue' = InsertEvent(Tail(queue),
                            Event(t + RoundDelay, nextUid, "MonitorNode", w))
            /\ m_event' = [m_event EXCEPT ![w] = nextUid]
            /\ nextUid' = nextUid + 1
    /\ UNCHANGED <<running, bindVars, m_receivedPackets, m_sentPackets,
                   m_packetLossRate, app, terminated, greyVars>>

\* a round with rand() taken as any value the generator can return
MonitorRound(w) ==
    /\ \E r \in 0 .. RandMax : MonitorRoundWith(w, r)
    /\ UNCHANGED runVars

\* the event of Simulator::Stop: Run returns, nothing more is dispatched
SimulatorStop ==
    /\ Dispatching("SimulatorStop", NullNode)
    /\ now' = Head(queue).ts
    /\ queue' = Tail(queue)
    /\ running' = FALSE
    /\ UNCHANGED <<nextUid, globalVars, bindVars, wdVars, posVars, greyVars, runVars>>

Next ==
    \/ \E w \in Watchdogs : StartApplication(w)
    \/ \E w \in Watchdogs : StopApplication(w)
    \/ \E w \in Watchdogs : MonitorTerminate(w)
    \/ \E w \in Watchdogs : MonitorRound(w)
    \/ SimulatorStop

Spec == Init /\ [][Next]_vars

\* ---- two executions of main with the same seed ------------------------------
\* rand() is a deterministic generator: the value it returns and its next
\* state are functions of its hidden state.  The program never calls srand,
\* so every execution starts the generator in the same state.  The C
\* library's function is not known here: the model takes a small linear
\* congruential generator and lets the initial state be any of RandStates.
RandStep(g) == (5 * g + 3) % RandStates
RandOutput(g) == g % (RandMax + 1)

\* Rand with the generator seeded from something that differs between runs
RandUnseeded(r, g) == r \in 0 .. RandMax

\* r is what rand() returns in generator state g
Rand(r, g) == r = RandOutput(g)

\* the stop times the queue was built with
StopTimeOf(q) ==
    [w \in Watchdogs |->
        LET i == CHOOSE i \in 1 .. Len(q) :
                     q[i].kind = "StopApplication" /\ q[i].w = w
        IN q[i].ts]

InitSeeded ==
    /\ MainStart
    /\ rngState \in 0 .. (RandStates - 1)
    /\ run = 1
    /\ firstOutcome = NoOutcome
    /\ scenario = [stopTime |-> StopTimeOf(queue), seed |-> rngState]

\* a round whose rand() comes from the generator
SeededMonitorRound(w) ==
    /\ \E r \in 0 .. RandMax : Rand(r, rngState) /\ MonitorRoundWith(w, r)
    /\ rngState' = RandStep(rngState)
    /\ UNCHANGED <<run, firstOutcome, scenario>>

\* what main reports of a finished execution
Outcome == [convergenceTime |-> convergenceTime, reputation |-> m_reputation]

\* The first execution is over; the program is executed again: the same
\* main, the same stop times, the generator in the same initial state.
Rerun ==
    /\ ~running
    /\ run = 1
    /\ run' = 2
    /\ firstOutcome' = Outcome
    /\ rngState' = scenario.seed
    /\ allNodesConverged' = FALSE
    /\ convergenceTime' = 0
    /\ nodesStatus' = [i \in DOMAIN nodesStatus |-> FALSE]
    /\ m_reputation' = [w \in Watchdogs |-> 0]
    /\ m_event' = [w \in Watchdogs |-> NoEvent]
    /\ m_monitorCount' = [w \in Watchdogs |-> 0]
    /\ m_packetLossRate' = [w \in Watchdogs |-> Num(0)]
    /\ app' = [w \in Watchdogs |-> "created"]
    /\ terminated' = [w \in Watchdogs |-> FALSE]
    /\ status' = [w \in Watchdogs |-> "none"]
    /\ posEvents' = [w \in Watchdogs |-> 0]
    /\ negEvents' = [w \in Watchdogs |-> 0]
    /\ noEvents' = [w \in Watchdogs |-> 0]
    /\ now' = 0
    /\ running' = TRUE
    /\ queue' = InitialQueue(scenario.stopTime)
    /\ nextUid' = 2 + 2 * NumWatchdogs
    /\ UNCHANGED <<bindVars, m_receivedPackets, m_sentPackets, greyVars, scenario>>

NextSeeded ==
    \/ \E w \in Watchdogs : StartApplication(w)
    \/ \E w \in Watchdogs : StopApplication(w)
    \/ \E w \in Watchdogs : MonitorTerminate(w)
    \/ \E w \in Watchdogs : SeededMonitorRound(w)
    \/ SimulatorStop
    \/ Rerun

SpecSeeded == InitSeeded /\ [][NextSeeded]_vars

\* ---- GreyholeNode ---------------------------------------------------------
\* In this specification nothing but the greyhole application runs.
InitGreyhole ==
    /\ Constructed
    /\ GlobalsInit
    /\ nodesStatus = [i \in 0 .. (NumWatchdogs + NumOther - 1) |-> FALSE]
    /\ now = 0
    /\ running = TRUE
    /\ queue = <<>>
    /\ nextUid = 1
    /\ GreyholeConstructed
    /\ RunIdle

GreyholeSetup(p) ==
    /\ g_app = "created"
    /\ g_dropProbability' = p
    /\ UNCHANGED <<g_socket, g_app, g_randomValue, g_forwarded, g_dropped>>
    /\ UNCHANGED <<schedVars, globalVars, bindVars, wdVars, posVars, runVars>>

GreyholeStartApplication ==
    /\ g_app = "created"
    /\ g_app' = "started"
    /\ g_socket' = TRUE
    /\ UNCHANGED <<g_dropProbability, g_randomValue, g_forwarded, g_dropped>>
    /\ UNCHANGED <<schedVars, globalVars, bindVars, wdVars, posVars, runVars>>

GreyholeStopApplication ==
    /\ g_app = "started"
    /\ g_app' = "stopped"
    /\ g_socket' = FALSE
    /\ UNCHANGED <<g_dropProbability, g_randomValue, g_forwarded, g_dropped>>
    /\ UNCHANGED <<schedVars, globalVars, bindVars, wdVars, posVars, runVars>>

\* randomValue > m_dropProbability, with randomValue = (double)rand() / RAND_MAX
Forwards(r, dropProbability) == 100 * r > dropProbability * RandMax

\* the receive callback of the bound socket, for one delivered packet
ReceivePacket ==
    /\ g_socket
    /\ g_forwarded + g_dropped < MaxPackets
    /\ \E packet \in BOOLEAN, r \in 0 .. RandMax :
         IF packet
         THEN /\ g_randomValue' = r
              /\ IF Forwards(r, g_dropProbability)
                 THEN g_forwarded' = g_forwarded + 1 /\ g_dropped' = g_dropped
                 ELSE g_dropped' = g_dropped + 1 /\ g_forwarded' = g_forwarded
         ELSE UNCHANGED <<g_randomValue, g_forwarded, g_dropped>>  \* Recv gave no packet
    /\ UNCHANGED <<g_dropProbability, g_socket, g_app>>
    /\ UNCHANGED <<schedVars, globalVars, bindVars, wdVars, posVars, runVars>>

NextGreyhole ==
    \/ \E p \in DropProbabilities : GreyholeSetup(p)
    \/ GreyholeStartApplication
    \/ GreyholeStopApplication
    \/ ReceivePacket

SpecGreyhole == InitGreyhole /\ [][NextGreyhole]_vars

\* ---- WatchdogNode::Setup ----------------------------------------------------
\* The configuration phase: the applications are constructed, nothing is
\* scheduled yet, and Setup is called on them.
Nodes == 0 .. (NumWatchdogs + NumOther - 1)

InitSetup ==
    /\ Constructed
    /\ GlobalsInit
    /\ nodesStatus = [i \in Nodes |-> FALSE]
    /\ now = 0
    /\ running = FALSE
    /\ queue = <<>>
    /\ nextUid = 1
    /\ GreyholeConstructed
    /\ RunIdle

Setup(w, node, gamma) ==
    /\ app[w] = "created"
    /\ m_node' = [m_node EXCEPT ![w] = node]
    /\ m_gamma' = [m_gamma EXCEPT ![w] = gamma]
    /\ UNCHANGED <<schedVars, globalVars, wdVars, posVars, greyVars, runVars>>

NextSetup == \E w \in Watchdogs, node \in Nodes, gamma \in Gammas : Setup(w, node, gamma)

SpecSetup == InitSetup /\ [][NextSetup]_vars

\* ---- properties ---------------------------------------------------------------
Rounds(w) == posEvents[w] + negEvents[w] + noEvents[w]
Decided(w) == nodesStatus[m_node[w]]

\* C1: no watchdog ever executes more than m_maxMonitorCount (10) rounds,
\* whatever the timers do and even if convergence is never reached:
\* m_monitorCount, and the number of evidence draws processed, stay <= 10.
C1_RoundsBounded ==
    \A w \in Watchdogs :
        /\ m_monitorCount[w] <= m_maxMonitorCount
        /\ Rounds(w) <= m_maxMonitorCount
        /\ Rounds(w) = m_monitorCount[w]

\* the run has ended, never converged, and a watchdog ran all 10 rounds
C1_Witness ==
    /\ ~running
    /\ ~allNodesConverged
    /\ \E w \in Watchdogs : Rounds(w) = m_maxMonitorCount

C3_ConvergedOnce ==
    [][/\ allNodesConverged => allNodesConverged'
       /\ convergenceTime' # convergenceTime
             => (~allNodesConverged /\ allNodesConverged')]_vars

\* converged by the round of watchdog 0, and the handler of another watchdog
\* has run at that same instant afterwards
C3_Witness ==
    /\ allNodesConverged
    /\ convergenceTime = now
    /\ now >= StartTime + RoundDelay
    /\ \E w \in Watchdogs : w # 0 /\ terminated[w] /\ m_monitorCount[w] = now - 2

\* C4 as stated: allNodesConverged is true exactly from the round in which
\* the last watchdog node becomes decided: whenever every watchdog node is
\* decided the network is converged, and it is never converged while a
\* watchdog node is undecided.
C4_ConvergedWhenAllWatchdogsDecided ==
    (\A w \in Watchdogs : Decided(w)) <=> allNodesConverged

\* C5: once StopApplication has run on a watchdog, its round handler never
\* runs again: it has no pending round event, schedules none, and its
\* reputation, round count and decided entry stay as they are.
C5_StopCancelsRound ==
    [][\A w \in Watchdogs :
          app[w] = "stopped" =>
              /\ ~Dispatching("MonitorNode", w)
              /\ ~Pending(w)
              /\ ~Pending(w)'
              /\ m_event'[w] = m_event[w]
              /\ m_reputation'[w] = m_reputation[w]
              /\ m_monitorCount'[w] = m_monitorCount[w]
              /\ Decided(w)' = Decided(w)
              /\ terminated'[w] = terminated[w]]_vars

\* a watchdog stopped while its next round was pending, and time has moved
\* past the instant of that round
C5_Witness ==
    \E w \in Watchdogs :
        /\ app[w] = "stopped"
        /\ ~terminated[w]
        /\ ~allNodesConverged
        /\ m_event[w] # NoEvent
        /\ m_monitorCount[w] = EarlyStop - (StartTime + RoundDelay)
        /\ now > EarlyStop

\* C6: the reputation of a watchdog is the number of POSITIVE_STATUS events
\* it processed minus the number of NEGATIVE_STATUS events; NO_STATUS
\* events count for nothing.
C6_ReputationIsSignedSum ==
    \A w \in Watchdogs : m_reputation[w] = posEvents[w] - negEvents[w]

\* two Positive, one Negative, one Unknown: reputation 1
C6_Witness ==
    \E w \in Watchdogs :
        /\ posEvents[w] = 2
        /\ negEvents[w] = 1
        /\ noEvents[w] = 1
        /\ m_reputation[w] = 1

\* C7: the state a round logs is trustworthy iff reputation >= threshold,
\* malicious iff reputation < -threshold, undecided otherwise; -threshold
\* itself is undecided.
C7_ThreeWayStatus ==
    \A w \in Watchdogs :
        status[w] # "none" =>
            /\ status[w] \in {"POSITIVE_STATUS", "NEGATIVE_STATUS", "NO_STATUS"}
            /\ (status[w] = "POSITIVE_STATUS") <=> (m_reputation[w] >= m_threshold)
            /\ (status[w] = "NEGATIVE_STATUS") <=> (m_reputation[w] < -m_threshold)
            /\ (m_reputation[w] = -m_threshold) => (status[w] = "NO_STATUS")

\* one watchdog exactly at the threshold, another exactly at -threshold
C7_Witness ==
    \E v, w \in Watchdogs :
        /\ m_reputation[v] = m_threshold /\ status[v] = "POSITIVE_STATUS"
        /\ m_reputation[w] = -m_threshold /\ status[w] = "NO_STATUS"

\* C8 as stated: a watchdog that reaches the termination branch with
\* m_sentPackets = 0 computes no loss rate: m_packetLossRate stays as
\* constructed, no division result is stored in it.
C8_NoLossRateWithoutSentPackets ==
    \A w \in Watchdogs :
        (terminated[w] /\ m_sentPackets[w] = 0) => m_packetLossRate[w] = Num(0)

\* C9 as stated: with dropProbability 0 the greyhole drops no packet, with
\* dropProbability 1 it forwards none, whatever rand() returns.
C9_DropProbabilityExtremes ==
    /\ g_dropProbability = 0 => g_dropped = 0
    /\ g_dropProbability = 100 => g_forwarded = 0

\* C10 as stated: Setup on a watchdog that is already attached is rejected;
\* its node and gamma stay as the first Setup left them.
C10_SecondSetupRejected ==
    [][\A w \in Watchdogs :
          m_node[w] # NullNode =>
              /\ m_node'[w] = m_node[w]
              /\ m_gamma'[w] = m_gamma[w]]_vars

C12_TerminatedAbsorbing ==
    [][\A w \in Watchdogs :
          terminated[w] =>
              /\ terminated'[w]
              /\ ~Dispatching("MonitorNode", w)
              /\ ~Pending(w)
              /\ ~Pending(w)'
              /\ m_reputation'[w] = m_reputation[w]
              /\ m_monitorCount'[w] = m_monitorCount[w]
              /\ Rounds(w)' = Rounds(w)]_vars

\* a watchdog terminated after its 10th round, and the run went on to its end
C12_Witness ==
    /\ ~running
    /\ now = SimStop
    /\ \E w \in Watchdogs :
          /\ terminated[w]
          /\ m_monitorCount[w] = m_maxMonitorCount
          /\ m_reputation[w] # 0

\* C13: an entry of nodesStatus that is true stays true, whatever evidence
\* comes later.
C13_DecidedRatchet ==
    [][\A i \in DOMAIN nodesStatus : nodesStatus[i] => nodesStatus'[i]]_vars

\* decided, and later evidence (Unknown included) has brought the
\* reputation back to 0
C13_Witness ==
    \E w \in Watchdogs :
        /\ Decided(w)
        /\ m_reputation[w] = 0
        /\ status[w] = "NO_STATUS"
        /\ posEvents[w] >= 1
        /\ negEvents[w] >= 1
        /\ noEvents[w] >= 1

\* C14 as stated, at the round that marks the node: the rounds before it
\* drew NO_STATUS and logged NO_STATUS, so the classification the claim
\* requires has to be the one this round logs.
C14_DecidedOnlyAfterClassification ==
    [][\A w \in Watchdogs :
          (~Decided(w) /\ Decided(w)') =>
              status'[w] \in {"POSITIVE_STATUS", "NEGATIVE_STATUS"}]_vars

\* C14 amended: a watchdog node is decided exactly when its watchdog has
\* processed at least one POSITIVE_STATUS or NEGATIVE_STATUS event; the
\* state it logged may have been NO_STATUS in every round.
C14_DecidedIffEvidence ==
    \A w \in Watchdogs :
        Decided(w) <=> (posEvents[w] + negEvents[w] >= 1)

\* decided by a single negative event: reputation -1, logged NO_STATUS
C14_Witness ==
    \E w \in Watchdogs :
        /\ Decided(w)
        /\ m_monitorCount[w] = 1
        /\ negEvents[w] = 1
        /\ m_reputation[w] = -1
        /\ status[w] = "NO_STATUS"

\* C15: the handler of watchdog i leaves the reputation, round count and
\* pending event of every other watchdog alone, and every entry of
\* nodesStatus but the one of its own node.
C15_RoundFrame ==
    [][\A i \in Watchdogs :
          Dispatching("MonitorNode", i) =>
              /\ \A j \in Watchdogs \ {i} :
                    /\ m_reputation'[j] = m_reputation[j]
                    /\ m_monitorCount'[j] = m_monitorCount[j]
                    /\ m_event'[j] = m_event[j]
                    /\ Decided(j)' = Decided(j)
              /\ \A k \in DOMAIN nodesStatus \ {m_node[i]} :
                    nodesStatus'[k] = nodesStatus[k]]_vars

\* both watchdogs have run two rounds on their own state
C15_Witness ==
    \E i, j \in Watchdogs :
        /\ i # j
        /\ m_monitorCount[i] = 2 /\ m_reputation[i] = 2
        /\ m_monitorCount[j] = 2 /\ m_reputation[j] = -2
        /\ ~allNodesConverged

\* C16: once allNodesConverged is true no evidence is drawn or applied:
\* every handler dispatched takes the termination branch, and reputations,
\* round counts and nodesStatus stay as they are.
C16_NoEvidenceAfterConvergence ==
    [][allNodesConverged =>
          /\ m_reputation' = m_reputation
          /\ m_monitorCount' = m_monitorCount
          /\ nodesStatus' = nodesStatus
          /\ <<posEvents, negEvents, noEvents>>' = <<posEvents, negEvents, noEvents>>
          /\ \A w \in Watchdogs :
                Dispatching("MonitorNode", w) => terminated'[w]]_vars

\* converged, and the timers that fired afterwards all took the
\* termination branch, the one of the next second included
C16_Witness ==
    /\ allNodesConverged
    /\ now = convergenceTime + RoundDelay
    /\ \A w \in Watchdogs : terminated[w] /\ m_monitorCount[w] < m_maxMonitorCount

\* firings of the round handler of w so far
Firings(w) == m_monitorCount[w] + (IF terminated[w] THEN 1 ELSE 0)

\* the time of the pending round event of w
PendingTime(w) ==
    LET i == CHOOSE i \in 1 .. Len(queue) :
                 queue[i].kind = "MonitorNode" /\ queue[i].w = w
    IN queue[i].ts

LastFiring == StartTime + RoundDelay * (m_maxMonitorCount + 1)

\* C17: every started watchdog terminates: its handler fires at most
\* m_maxMonitorCount + 1 times, a pending round event is never later than
\* the time of that last firing, the scheduler can always dispatch a pending
\* event, and once the clock has passed that time the watchdog has taken the
\* termination branch or was stopped, with nothing pending.
C17_Terminates ==
    /\ (running /\ queue # <<>>) => ENABLED Next
    /\ \A w \in Watchdogs :
          /\ Firings(w) <= m_maxMonitorCount + 1
          /\ Pending(w) => (running /\ PendingTime(w) <= LastFiring)
          /\ (app[w] # "created" /\ now > LastFiring)
                => ((terminated[w] \/ app[w] = "stopped") /\ ~Pending(w))

\* a watchdog whose handler fired 11 times, the clock past the last firing
C17_Witness ==
    \E w \in Watchdogs :
        /\ Firings(w) = m_maxMonitorCount + 1
        /\ app[w] = "started"
        /\ now > LastFiring
        /\ ~Pending(w)

\* C18: a watchdog is started at StartTime, its k-th round executes at
\* StartTime + k, and the round event pending after k rounds is one
\* RoundDelay later.
C18_RoundTimes ==
    [][\A w \in Watchdogs :
          /\ (app[w] = "created" /\ app'[w] = "started") => now' = StartTime
          /\ (m_monitorCount'[w] # m_monitorCount[w]) =>
                /\ m_monitorCount'[w] = m_monitorCount[w] + 1
                /\ now' = StartTime + RoundDelay * m_monitorCount'[w]
          /\ Pending(w)' =>
                PendingTime(w)' = StartTime + RoundDelay * (m_monitorCount'[w] + 1)]_vars

\* the third round of a watchdog has just run, at StartTime + 3
C18_Witness ==
    \E w \in Watchdogs :
        /\ m_monitorCount[w] = 3
        /\ now = StartTime + 3 * RoundDelay
        /\ Pending(w)
        /\ PendingTime(w) = now + RoundDelay

\* C19: -m_monitorCount <= m_reputation <= m_monitorCount <= 10 for every
\* watchdog.
C19_ReputationBounded ==
    \A w \in Watchdogs :
        /\ -m_monitorCount[w] <= m_reputation[w]
        /\ m_reputation[w] <= m_monitorCount[w]
        /\ m_monitorCount[w] <= m_maxMonitorCount

\* the bound is met: ten positive rounds of one watchdog, ten negative of another
C19_Witness ==
    \E v, w \in Watchdogs :
        /\ m_reputation[v] = m_maxMonitorCount
        /\ m_reputation[w] = -m_maxMonitorCount

\* C20: every watchdog writes an index inside nodesStatus, and with one
\* entry per created node the entries of the nodes that run no watchdog
\* (the last NumOther) are false.
C20_OtherNodesNeverDecided ==
    /\ \A w \in Watchdogs : m_node[w] \in DOMAIN nodesStatus
    /\ DOMAIN nodesStatus = Nodes =>
          \A i \in Nodes \ {m_node[w] : w \in Watchdogs} : ~nodesStatus[i]

\* one entry per created node, every watchdog node decided
C20_Witness ==
    /\ DOMAIN nodesStatus = Nodes
    /\ \A w \in Watchdogs : Decided(w)
    /\ \A i \in Nodes : nodesStatus[i] <=> (i < NumWatchdogs)

====
